---- MODULE Spec2Model ----
(***************************************************************************)
(* Model of the song similarity graph: get_property_ranges                 *)
(* (src/get_property_ranges.py) and _Song / SongGraph / build_graph        *)
(* (src/graphs.py).                                                        *)
(*                                                                         *)
(* Python floats are modelled as exact fixed-point numbers: the float x is *)
(* the integer x * FP, and FP is chosen so that every division the code    *)
(* performs on the bounded inputs is exact.  math.inf is PosInf.           *)
(* A Python call is modelled by its outcome: the exception it raises       *)
(* ("none" when it returns) and the value it returns.                      *)
(*                                                                         *)
(* Specifications:                                                         *)
(*   Spec             build_graph, then queries (main.py, ui.py)           *)
(*   SpecScorer       get_similarity with the ranges of the songs' file    *)
(*   SpecSongGraph    add_vertex, get_recommendations, get_artists_by_song *)
(*                    in any order                                         *)
(*   SpecOneAttribute Spec on files whose songs differ in bpm alone        *)
(*   SpecPair         get_similarity on two songs and any ranges           *)
(*   SpecAddEdge      add_vertex and add_edge called by a client           *)
(***************************************************************************)
EXTENDS Integers, Sequences, FiniteSets, TLC

\* ------------------------------------------------------------------ bounds
\* rows of the songs file (after the header line)
MaxRows == 3
\* numeric columns of the graph's songs file hold 0..MaxVal
MaxVal == 2
\* num_songs of a query ranges over 0..MaxNum
MaxNum == 2
\* numeric columns of the scorer's songs file hold 0..ScoreMaxVal
ScoreMaxVal == 3

\* numeric columns of the songs file read by the graph specification
NumericProps == {"bpm"}
\* numeric columns of the songs file read by the scorer specification
ScorerProps == {"year", "bpm"}
\* similarity_threshold of a query, in percent
Thresholds == {0, 70, 100}
\* (title, artist) columns as written in the file, in order of first use
RawIds == << <<"a", "x">>, <<"a", "Y">>, <<"B", "x">>, <<"B", "Y">> >>
Genres == {"Pop"}
\* names and artists a query may ask for
QueryNames == {"a", "b", "B"}
QueryArtists == {"x", "y"}

\* ------------------------------------------------------------- arithmetic
Max2(a, b) == IF a >= b THEN a ELSE b

RECURSIVE Gcd(_, _)
Gcd(a, b) == IF b = 0 THEN a ELSE Gcd(b, a % b)

RECURSIVE LcmUpTo(_)
LcmUpTo(n) == IF n <= 1 THEN 1 ELSE (LcmUpTo(n - 1) * n) \div Gcd(LcmUpTo(n - 1), n)

\* fixed-point unit: divisible by r * d for every range r and every divisor
\* d = len(attributes) - 1 that occurs
FP == LcmUpTo(Max2(MaxVal, ScoreMaxVal)) * LcmUpTo(Cardinality(ScorerProps) + 2)

PosInf == 1000000000
NegInf == -PosInf

\* float(<integer literal>)
ToFloat(v) == v * FP

\* abs(a - b) on floats, with the infinities of get_property_ranges
AbsDiff(a, b) ==
    IF a = PosInf \/ b = NegInf \/ a = NegInf \/ b = PosInf THEN PosInf
    ELSE IF a >= b THEN a - b ELSE b - a

\* str.lower() on the letters the model uses
Lower(s) ==
    CASE s = "A" -> "a"
      [] s = "B" -> "b"
      [] s = "X" -> "x"
      [] s = "Y" -> "y"
      [] s = "Pop" -> "pop"
      [] s = "Rock" -> "rock"
      [] OTHER -> s

\* ------------------------------------------------------ get_property_ranges
\* dict_values[i] before the scan: [inf, n_inf]
DictValuesInitZero == <<0, 0>>

DictValuesInit == <<PosInf, NegInf>>

\* one row's update of dict_values[i] = [min, max]
ScanStep(d, val) ==
    IF val < d[1] THEN <<val, d[2]>>
    ELSE IF val > d[2] THEN <<d[1], val>>
    ELSE d

RECURSIVE Scan(_, _, _, _)
Scan(file, p, i, d) ==
    IF i > Len(file) THEN d
    ELSE Scan(file, p, i + 1, ScanStep(d, ToFloat(file[i][p])))

\* the outcome of get_property_ranges(songs_file) for the numeric columns props
GetPropertyRanges(file, props) ==
    [raised |-> "none",
     value |-> [p \in props |->
                  LET d == Scan(file, p, 1, DictValuesInit)
                  IN AbsDiff(d[1], d[2])]]

\* ------------------------------------------------------------------ _Song
StringProps == {"name", "artist", "genre"}

RECURSIVE SumOver(_, _)
\* sum of f[p] over the finite set S
SumOver(S, f) ==
    IF S = {} THEN 0
    ELSE LET p == CHOOSE q \in S : TRUE
         IN f[p] + SumOver(S \ {p}, f)

\* diff / property_ranges[p] * 100 for a non-zero range
PercentDiff(diff, range) ==
    IF range = PosInf THEN 0 ELSE ((diff * FP) \div range) * 100

GetSimilarityCompareGenre(self, other, property_ranges) ==
    LET numeric == DOMAIN self \ StringProps
        flat == {p \in DOMAIN self \cap {"artist", "genre"} : self[p] = other[p]}
        contrib == [p \in numeric |->
                      ToFloat(100) - PercentDiff(AbsDiff(self[p], other[p]),
                                                 property_ranges[p])]
        sum_similarity == SumOver(numeric, contrib) + Cardinality(flat) * ToFloat(100)
    IN IF \E p \in numeric : property_ranges[p] = 0
       THEN [raised |-> "ZeroDivisionError", value |-> 0]
       ELSE [raised |-> "none",
             value |-> sum_similarity \div (Cardinality(DOMAIN self) - 1)]

\* the outcome of self.get_similarity(other, property_ranges); self and other
\* are attribute dictionaries
GetSimilarity(self, other, property_ranges) ==
    LET numeric == DOMAIN self \ StringProps
        flat == DOMAIN self \cap {"artist", "genre"}
        contrib == [p \in numeric |->
                      ToFloat(100) - PercentDiff(AbsDiff(self[p], other[p]),
                                                 property_ranges[p])]
        sum_similarity == SumOver(numeric, contrib) + Cardinality(flat) * ToFloat(100)
    IN IF \E p \in numeric : property_ranges[p] = 0
       THEN [raised |-> "ZeroDivisionError", value |-> 0]
       ELSE [raised |-> "none",
             value |-> sum_similarity \div (Cardinality(DOMAIN self) - 1)]

\* -------------------------------------------------------------- SongGraph
\* a song object is identified by its key in _vertices
KeyOf(attributes) == <<attributes["name"], attributes["artist"]>>

Keys(vs) == {KeyOf(vs[i]) : i \in DOMAIN vs}

VertexOf(vs, key) == vs[CHOOSE i \in DOMAIN vs : KeyOf(vs[i]) = key]

\* a dict is the sequence of its <<key, value>> items in insertion order
DictHas(d, k) == \E i \in DOMAIN d : d[i][1] = k

DictGet(d, k) == d[CHOOSE i \in DOMAIN d : d[i][1] = k][2]

DictSet(d, k, v) ==
    IF DictHas(d, k)
    THEN [i \in DOMAIN d |-> IF d[i][1] = k THEN <<k, v>> ELSE d[i]]
    ELSE Append(d, <<k, v>>)

AddVertexOverwrite(vs, nb, attributes) ==
    IF KeyOf(attributes) \notin Keys(vs)
    THEN [vs |-> Append(vs, attributes), nb |-> nb @@ (KeyOf(attributes) :> <<>>)]
    ELSE [vs |-> [i \in DOMAIN vs |->
                    IF KeyOf(vs[i]) = KeyOf(attributes) THEN attributes ELSE vs[i]],
          nb |-> [nb EXCEPT ![KeyOf(attributes)] = <<>>]]

AddVertexEager(vs, nb, attributes) ==
    IF KeyOf(attributes) \notin Keys(vs)
    THEN [vs |-> Append(vs, attributes),
          nb |-> [k \in DOMAIN nb |-> Append(nb[k], <<KeyOf(attributes), 0>>)]
                 @@ (KeyOf(attributes) :> [i \in DOMAIN vs |-> <<KeyOf(vs[i]), 0>>])]
    ELSE [vs |-> vs, nb |-> nb]

\* the vertices and neighbour maps after self.add_vertex(attributes)
AddVertexOp(vs, nb, attributes) ==
    IF KeyOf(attributes) \notin Keys(vs)
    THEN [vs |-> Append(vs, attributes), nb |-> nb @@ (KeyOf(attributes) :> <<>>)]
    ELSE [vs |-> vs, nb |-> nb]

AddEdgeOneWay(vs, nb, song1, song2, similarity) ==
    IF song1 \in Keys(vs) /\ song2 \in Keys(vs)
    THEN [raised |-> "none",
          nb |-> [nb EXCEPT ![song1] = DictSet(@, song2, similarity)]]
    ELSE [raised |-> "ValueError", nb |-> nb]

AddEdgeSelfLoop(vs, nb, song1, song2, similarity) ==
    IF song1 \in Keys(vs) /\ song2 \in Keys(vs)
    THEN [raised |-> "none",
          nb |-> [nb EXCEPT ![song1] = DictSet(DictSet(@, song1, similarity), song2, similarity),
                            ![song2] = DictSet(nb[song2], song1, similarity)]]
    ELSE [raised |-> "ValueError", nb |-> nb]

AddEdgeThenCheck(vs, nb, song1, song2, similarity) ==
    [raised |-> IF song1 \in Keys(vs) /\ song2 \in Keys(vs) THEN "none" ELSE "ValueError",
     nb |-> [nb EXCEPT ![song1] = DictSet(@, song2, similarity),
                       ![song2] = DictSet(nb[song2], song1, similarity)]]

\* the outcome of self.add_edge(song1, song2, similarity)
AddEdge(vs, nb, song1, song2, similarity) ==
    IF song1 \in Keys(vs) /\ song2 \in Keys(vs)
    THEN [raised |-> "none",
          nb |-> [nb EXCEPT ![song1] = DictSet(@, song2, similarity),
                            ![song2] = DictSet(nb[song2], song1, similarity)]]
    ELSE [raised |-> "ValueError", nb |-> nb]

IsAdjacentNever(nb, song, other) == FALSE

\* song.is_adjacent(other)
IsAdjacent(nb, song, other) == DictHas(nb[song], other)

RECURSIVE ArtistsFrom(_, _, _)
ArtistsFrom(vs, name, i) ==
    IF i > Len(vs) THEN <<>>
    ELSE IF name = vs[i]["name"]
         THEN <<vs[i]["artist"]>> \o ArtistsFrom(vs, name, i + 1)
         ELSE ArtistsFrom(vs, name, i + 1)

GetArtistsBySongAll(vs, name) == [i \in DOMAIN vs |-> vs[i]["artist"]]

\* self.get_artists_by_song(name)
GetArtistsBySong(vs, name) == ArtistsFrom(vs, name, 1)

InsertAt(lst, i, e) == SubSeq(lst, 1, i - 1) \o <<e>> \o SubSeq(lst, i, Len(lst))

InsertSongNotStable(lst, key, similarity) ==
    IF \E i \in DOMAIN lst : lst[i][2] <= similarity
    THEN InsertAt(lst, CHOOSE i \in DOMAIN lst :
                         /\ lst[i][2] <= similarity
                         /\ \A j \in 1..(i - 1) : ~(lst[j][2] <= similarity),
                  <<key, similarity>>)
    ELSE Append(lst, <<key, similarity>>)

\* lst after _insert_song(lst, other, similarity); key is other's (name, artist)
InsertSong(lst, key, similarity) ==
    IF \E i \in DOMAIN lst : lst[i][2] < similarity
    THEN InsertAt(lst, CHOOSE i \in DOMAIN lst :
                         /\ lst[i][2] < similarity
                         /\ \A j \in 1..(i - 1) : ~(lst[j][2] < similarity),
                  <<key, similarity>>)
    ELSE Append(lst, <<key, similarity>>)

RECURSIVE ReformatFrom(_, _, _, _, _)
ReformatFrom(lst, i, lst_so_far, num_songs, similarity_threshold) ==
    IF i > Len(lst) THEN lst_so_far
    ELSE LET next == IF lst[i][2] >= similarity_threshold
                     THEN Append(lst_so_far, lst[i][1])
                     ELSE lst_so_far
         IN IF Len(next) = num_songs THEN next
            ELSE ReformatFrom(lst, i + 1, next, num_songs, similarity_threshold)

GetReformattedSongsFirstOnly(lst, num_songs, similarity_threshold) ==
    ReformatFrom(lst, 1, <<>>, 1, similarity_threshold)

GetReformattedSongsNoFilter(lst, num_songs, similarity_threshold) ==
    ReformatFrom(lst, 1, <<>>, num_songs, NegInf)

\* _get_reformatted_songs(lst, num_songs, similarity_threshold)
GetReformattedSongs(lst, num_songs, similarity_threshold) ==
    ReformatFrom(lst, 1, <<>>, num_songs, similarity_threshold)

RECURSIVE FastPath(_, _, _)
\* the loop over song.neighbors (graphs.py 156-158)
FastPath(d, i, lst) ==
    IF i > Len(d) THEN lst
    ELSE FastPath(d, i + 1, InsertSong(lst, d[i][1], d[i][2]))

RECURSIVE GeneralPath(_, _, _, _, _)
\* the loop over self._vertices.values() (graphs.py 160-169) from the i-th
\* vertex on; st holds the neighbour maps, lst_so_far, the exception that ended
\* the loop, and the pairs get_similarity was called on
GeneralPath(vs, i, song, property_ranges, st) ==
    IF i > Len(vs) \/ st.raised # "none" THEN st
    ELSE LET other == KeyOf(vs[i])
         IN IF other = song
            THEN GeneralPath(vs, i + 1, song, property_ranges, st)
            ELSE IF IsAdjacent(st.nb, song, other)
            THEN GeneralPath(vs, i + 1, song, property_ranges,
                     [st EXCEPT !.lst = InsertSong(@, other, DictGet(st.nb[song], other))])
            ELSE LET sim == GetSimilarity(VertexOf(vs, song), vs[i], property_ranges)
                     edge == AddEdge(vs, st.nb, song, other, sim.value)
                     called == st.computed \cup {{song, other}}
                 IN IF sim.raised # "none"
                    THEN [st EXCEPT !.raised = sim.raised, !.computed = called]
                    ELSE IF edge.raised # "none"
                    THEN [st EXCEPT !.raised = edge.raised, !.computed = called]
                    ELSE GeneralPath(vs, i + 1, song, property_ranges,
                             [st EXCEPT !.nb = edge.nb,
                                        !.computed = called,
                                        !.lst = InsertSong(@, other, sim.value)])

InSeq(x, s) == \E i \in DOMAIN s : s[i] = x

CandidatesFromCache(vs, nb, property_ranges, name, artist) ==
    IF ~InSeq(artist, GetArtistsBySong(vs, name))
    THEN [known |-> FALSE, raised |-> "none", lst |-> <<>>, nb |-> nb, computed |-> {}]
    ELSE IF <<name, artist>> \notin Keys(vs)
    THEN [known |-> TRUE, raised |-> "KeyError", lst |-> <<>>, nb |-> nb, computed |-> {}]
    ELSE LET song == <<name, artist>>
             st0 == [known |-> TRUE, nb |-> nb, lst |-> <<>>, raised |-> "none",
                     computed |-> {}]
         IN IF Len(nb[song]) = Len(vs) - 1
            THEN [st0 EXCEPT !.lst = FastPath(nb[song], 1, <<>>)]
            ELSE GeneralPath(vs, 1, song, property_ranges, st0)

\* get_recommendations up to its return statement (graphs.py 149-169): the
\* exception raised, lst_so_far, the neighbour maps and the pairs get_similarity
\* was called on; known tells whether the early return at line 150 was passed
Candidates(vs, nb, property_ranges, name, artist) ==
    IF ~InSeq(artist, GetArtistsBySong(vs, name))
    THEN [known |-> FALSE, raised |-> "none", lst |-> <<>>, nb |-> nb, computed |-> {}]
    ELSE IF <<name, artist>> \notin Keys(vs)
    THEN [known |-> TRUE, raised |-> "KeyError", lst |-> <<>>, nb |-> nb, computed |-> {}]
    ELSE LET song == <<name, artist>>
             st0 == [known |-> TRUE, nb |-> nb, lst |-> <<>>, raised |-> "none",
                     computed |-> {}]
         IN IF Len(nb[song]) = Len(vs)
            THEN [st0 EXCEPT !.lst = FastPath(nb[song], 1, <<>>)]
            ELSE GeneralPath(vs, 1, song, property_ranges, st0)

\* what get_recommendations returns (graphs.py 150, 171) after the loop ended
\* as st; <<>> stands for no value when an exception was raised
ReturnOf(st, num_songs, similarity_threshold) ==
    IF ~st.known \/ st.raised # "none" THEN <<>>
    ELSE GetReformattedSongs(st.lst, num_songs, similarity_threshold)

\* ------------------------------------------------------------ build_graph
\* the attributes dictionary build_graph makes of one line of the file
RowAttributes(line) ==
    [p \in DOMAIN line |->
        IF p \in StringProps THEN Lower(line[p]) ELSE ToFloat(line[p])]

\* ------------------------------------------------------------------ state
VARIABLES
    rows,             \* the lines of songs_file after the header
    property_ranges,  \* SongGraph._property_ranges
    vertices,         \* SongGraph._vertices: the attribute dictionaries, in insertion order
    neighbors,        \* _Song.neighbors of every vertex, by (name, artist)
    cursor,           \* the next line build_graph reads
    call,             \* the last call made on the graph, with its arguments
    ret,              \* what the last call returned: for a query, by (num_songs, similarity_threshold)
    raised,           \* the exception the last call raised, "none" if it returned
    computed          \* the pairs the last call ran get_similarity on

vars == <<rows, property_ranges, vertices, neighbors, cursor, call, ret, raised, computed>>

NoCall == [op |-> "none"]

\* a line of the file: name, artist, genre and the numeric columns
Lines(ids, props, maxval) ==
    {[name |-> id[1], artist |-> id[2], genre |-> g] @@ v :
        id \in ids, g \in Genres, v \in [props -> 0..maxval]}

IdIndex(line) == CHOOSE k \in DOMAIN RawIds : RawIds[k] = <<line["name"], line["artist"]>>

\* each line repeats an earlier line's (title, artist) or uses the next of RawIds
InOrderOfFirstUse(file) ==
    \A i \in DOMAIN file :
        \/ IdIndex(file[i]) = 1
        \/ \E j \in 1..(i - 1) : IdIndex(file[j]) >= IdIndex(file[i]) - 1

Files ==
    {file \in UNION {[1..n -> Lines({RawIds[k] : k \in DOMAIN RawIds}, NumericProps, MaxVal)] :
                        n \in 0..MaxRows} :
        InOrderOfFirstUse(file)}

\* build_graph up to the construction of the SongGraph (graphs.py 181-182)
Init ==
    /\ rows \in Files
    /\ LET r == GetPropertyRanges(rows, NumericProps)
       IN /\ property_ranges = r.value
          /\ raised = r.raised
    /\ vertices = <<>>
    /\ neighbors = <<>>
    /\ cursor = 1
    /\ call = NoCall
    /\ ret = <<>>
    /\ computed = {}

\* one iteration of build_graph's loop over the file (graphs.py 188-210)
AddVertex ==
    /\ cursor <= Len(rows)
    /\ LET r == AddVertexOp(vertices, neighbors, RowAttributes(rows[cursor]))
       IN /\ vertices' = r.vs
          /\ neighbors' = r.nb
    /\ cursor' = cursor + 1
    /\ call' = [op |-> "add_vertex"]
    /\ ret' = <<>>
    /\ raised' = "none"
    /\ computed' = {}
    /\ UNCHANGED <<rows, property_ranges>>

\* the (num_songs, similarity_threshold) pairs a query is made with
QueryArgs == (0..MaxNum) \X {ToFloat(t) : t \in Thresholds}

\* the graph and the outcome recorded after a query whose loop ended as st
Record(st) ==
    /\ neighbors' = st.nb
    /\ raised' = st.raised
    /\ computed' = st.computed
    /\ ret' = [a \in QueryArgs |-> ReturnOf(st, a[1], a[2])]

\* a query on the built graph (ui.py 362).  num_songs and similarity_threshold
\* are read by the return statement alone (graphs.py 171), so one step records
\* what the call returns for each pair of QueryArgs
GetRecommendations(name, artist) ==
    /\ cursor > Len(rows)
    /\ Record(Candidates(vertices, neighbors, property_ranges, name, artist))
    /\ call' = [op |-> "get_recommendations", name |-> name, artist |-> artist]
    /\ UNCHANGED <<rows, property_ranges, vertices, cursor>>

Query ==
    \E name \in QueryNames, artist \in QueryArtists :
        GetRecommendations(name, artist)

Next == AddVertex \/ Query

Spec == Init /\ [][Next]_vars

\* ----------------------------------------------------------------- scorer
\* get_similarity on the songs of a file, with the ranges of that same file
\* (graphs.py 181, 166); line k of the file is the song RawIds[k]
ScorerFiles(n) ==
    {[k \in 1..n |-> [name |-> RawIds[k][1], artist |-> RawIds[k][2], genre |-> g[k]] @@ v[k]] :
        g \in [1..n -> Genres], v \in [1..n -> [ScorerProps -> 0..ScoreMaxVal]]}

InitScorer ==
    /\ \E n \in 0..MaxRows : rows \in ScorerFiles(n)
    /\ LET r == GetPropertyRanges(rows, ScorerProps)
       IN /\ property_ranges = r.value
          /\ raised = r.raised
    /\ vertices = <<>>
    /\ neighbors = <<>>
    /\ cursor = 1
    /\ call = NoCall
    /\ ret = <<>>
    /\ computed = {}

RecordScore(r) ==
    /\ ret' = r.value
    /\ raised' = r.raised

\* song.get_similarity(other, self._property_ranges) for the songs of lines i, j
ScorePair(i, j) ==
    /\ i # j
    /\ RecordScore(GetSimilarity(RowAttributes(rows[i]), RowAttributes(rows[j]),
                                 property_ranges))
    /\ call' = [op |-> "get_similarity", self |-> i, other |-> j]
    /\ UNCHANGED <<rows, property_ranges, vertices, neighbors, cursor, computed>>

NextScorer == \E i \in DOMAIN rows, j \in DOMAIN rows : ScorePair(i, j)

SpecScorer == InitScorer /\ [][NextScorer]_vars

\* ------------------------------------------------------- SongGraph calls
\* the methods of SongGraph called in any order on the graph build_graph
\* constructs (graphs.py 182): add_vertex for the next line of the file, and
\* get_recommendations and get_artists_by_song at any moment, also before the
\* last line was added
GetRecommendationsAnytime(name, artist) ==
    /\ Record(Candidates(vertices, neighbors, property_ranges, name, artist))
    /\ call' = [op |-> "get_recommendations", name |-> name, artist |-> artist]
    /\ UNCHANGED <<rows, property_ranges, vertices, cursor>>

QueryAnytime ==
    \E name \in QueryNames, artist \in QueryArtists :
        GetRecommendationsAnytime(name, artist)

\* graph.get_artists_by_song(name) with the name as the caller passes it
GetArtistsBySongCall(name) ==
    /\ ret' = GetArtistsBySong(vertices, name)
    /\ raised' = "none"
    /\ computed' = {}
    /\ call' = [op |-> "get_artists_by_song", name |-> name]
    /\ UNCHANGED <<rows, property_ranges, vertices, neighbors, cursor>>

ArtistSearch == \E name \in QueryNames : GetArtistsBySongCall(name)

NextSongGraph == AddVertex \/ QueryAnytime \/ ArtistSearch

\* the files whose numeric columns hold only the least and the greatest value:
\* they give every kind of range (zero, finite, infinite)
InitSongGraph ==
    /\ Init
    /\ \A i \in DOMAIN rows : \A p \in NumericProps : rows[i][p] \in {0, MaxVal}

SpecSongGraph == InitSongGraph /\ [][NextSongGraph]_vars

\* --------------------------------------- catalogs differing in one column
\* build_graph and queries on a file of ScorerProps columns whose songs differ
\* in bpm alone: line k is the song RawIds[k], year holds one value on every line
OneAttributeFiles(n) ==
    {[k \in 1..n |-> [name |-> RawIds[k][1], artist |-> RawIds[k][2], genre |-> g,
                      year |-> y, bpm |-> v[k]]] :
        g \in Genres, y \in {0, MaxVal}, v \in [1..n -> 0..MaxVal]}

InitOneAttribute ==
    /\ \E n \in 0..MaxRows : rows \in OneAttributeFiles(n)
    /\ LET r == GetPropertyRanges(rows, ScorerProps)
       IN /\ property_ranges = r.value
          /\ raised = r.raised
    /\ vertices = <<>>
    /\ neighbors = <<>>
    /\ cursor = 1
    /\ call = NoCall
    /\ ret = <<>>
    /\ computed = {}

SpecOneAttribute == InitOneAttribute /\ [][Next]_vars

\* ------------------------------------------------- get_similarity alone
\* get_similarity on two songs and a property_ranges mapping given by the
\* caller: the two lines of rows are the songs, with any genres, and every
\* range is zero, a whole number up to ScoreMaxVal, or infinite
PairGenres == {"Pop", "Rock"}

RangeValues == {ToFloat(r) : r \in 0..ScoreMaxVal} \cup {PosInf}

\* (title, artist) of the two songs: they differ in both
PairIds == <<RawIds[1], RawIds[Len(RawIds)]>>

PairFiles ==
    {[k \in 1..2 |-> [name |-> PairIds[k][1], artist |-> PairIds[k][2], genre |-> g[k]] @@ v[k]] :
        g \in [1..2 -> PairGenres], v \in [1..2 -> [ScorerProps -> 0..ScoreMaxVal]]}

InitPair ==
    /\ rows \in PairFiles
    /\ property_ranges \in [ScorerProps -> RangeValues]
    /\ raised = "none"
    /\ vertices = <<>>
    /\ neighbors = <<>>
    /\ cursor = 1
    /\ call = NoCall
    /\ ret = <<>>
    /\ computed = {}

SpecPair == InitPair /\ [][NextScorer]_vars

\* ------------------------------------------------------- add_edge calls
\* add_edge called by a client of SongGraph during and after build_graph, on
\* the songs of the graph and on _Song objects the client made itself.  A
\* vertex is named by its (name, artist); OutsideSongs are two objects that
\* are no vertex, the first with the (name, artist) of a song of the file.
\* Here neighbors holds the neighbour maps of the outside songs too.
OutsideSongs == {<<"a", "x", "outside">>, <<"c", "z", "outside">>}

\* the similarity the client passes
EdgeSimilarities == {ToFloat(50)}

InitAddEdge ==
    /\ rows \in Files
    /\ \A i \in DOMAIN rows : \A p \in NumericProps : rows[i][p] = 0
    /\ LET r == GetPropertyRanges(rows, NumericProps)
       IN /\ property_ranges = r.value
          /\ raised = r.raised
    /\ vertices = <<>>
    /\ neighbors = [o \in OutsideSongs |-> <<>>]
    /\ cursor = 1
    /\ call = NoCall
    /\ ret = <<>>
    /\ computed = {}

\* graph.add_edge(song1, song2, similarity); the precondition is song1 != song2
AddEdgeCall(song1, song2, similarity) ==
    /\ song1 # song2
    /\ LET r == AddEdge(vertices, neighbors, song1, song2, similarity)
       IN /\ neighbors' = r.nb
          /\ raised' = r.raised
    /\ call' = [op |-> "add_edge", song1 |-> song1, song2 |-> song2]
    /\ ret' = <<>>
    /\ computed' = {}
    /\ UNCHANGED <<rows, property_ranges, vertices, cursor>>

ClientAddsEdge ==
    \E song1 \in DOMAIN neighbors, song2 \in DOMAIN neighbors :
        \E similarity \in EdgeSimilarities : AddEdgeCall(song1, song2, similarity)

NextAddEdge == AddVertex \/ ClientAddsEdge

SpecAddEdge == InitAddEdge /\ [][NextAddEdge]_vars

\* ----------------------------------------------------------------- claims
IsQuery == call.op = "get_recommendations"

Queried == <<call.name, call.artist>>

\* the last call was a query on a song of the catalog
KnownQuery == IsQuery /\ Queried \in Keys(vertices)

\* the last call was a query that returned a list
Returned == IsQuery /\ raised = "none"

\* the similarity score of two catalog songs, computed from their attributes
ScoreOf(a, b) ==
    GetSimilarity(VertexOf(vertices, a), VertexOf(vertices, b), property_ranges).value

\* position of a key in catalog iteration order
PosOf(key) == CHOOSE i \in DOMAIN vertices : KeyOf(vertices[i]) = key

Cached(nb, a, b) == a \in DOMAIN nb /\ DictHas(nb[a], b)

\* C1: a query that returns, returns at most num_songs entries, for every
\* num_songs >= 0 (0 included) and every threshold >= 0.
C1_LengthAtMostNumSongs ==
    Returned => \A a \in QueryArgs : Len(ret[a]) <= a[1]

\* the similarity to the queried song of every other catalog song, computed
\* from the attributes
ScoresOfQueried == [k \in Keys(vertices) \ {Queried} |-> ScoreOf(Queried, k)]

\* every entry of every returned list is a catalog song other than the queried
\* one, with score[k] and the cached score at least the threshold
MeetThreshold(score) ==
    \A a \in QueryArgs : \A i \in DOMAIN ret[a] :
        /\ ret[a][i] \in DOMAIN score
        /\ score[ret[a][i]] >= a[2]
        /\ Cached(neighbors, Queried, ret[a][i])
        /\ DictGet(neighbors[Queried], ret[a][i]) >= a[2]

\* C2: every (name, artist) a query returns is a catalog song whose similarity
\* to the queried song, computed from the attributes and as cached, is at
\* least similarity_threshold.
C2_ReturnedScoresMeetThreshold == Returned => MeetThreshold(ScoresOfQueried)

\* a query with a positive threshold returned some songs and left out a catalog
\* song that scores below the threshold
C2_Witness ==
    /\ Returned /\ KnownQuery
    /\ \E a \in QueryArgs :
        /\ a[2] > 0
        /\ ret[a] # <<>>
        /\ \E k \in Keys(vertices) \ {Queried} :
            /\ ScoreOf(Queried, k) < a[2]
            /\ ~InSeq(k, ret[a])

\* every returned list is non-increasing in score, ties in catalog order
DescendingStable(score) ==
    \A a \in QueryArgs : \A i \in DOMAIN ret[a] : \A j \in DOMAIN ret[a] :
        i < j =>
            /\ score[ret[a][i]] >= score[ret[a][j]]
            /\ score[ret[a][i]] = score[ret[a][j]] => PosOf(ret[a][i]) < PosOf(ret[a][j])

\* C3: the returned list is in non-increasing order of similarity, and songs of
\* equal similarity appear in catalog iteration order.
C3_DescendingStableOrder == Returned => DescendingStable(ScoresOfQueried)

\* a query returned two songs of equal similarity
C3_Witness ==
    /\ Returned /\ KnownQuery
    /\ \E a \in QueryArgs : \E i \in DOMAIN ret[a] : \E j \in DOMAIN ret[a] :
        /\ i < j
        /\ ScoreOf(Queried, ret[a][i]) = ScoreOf(Queried, ret[a][j])

\* every line of the file holds the same value in column p
ConstantColumn(p) == \A i \in DOMAIN rows : \A j \in DOMAIN rows : rows[i][p] = rows[j][p]

\* C4: in a catalog whose songs all share one value of a numeric attribute, a
\* query on a song of the catalog raises nothing, and the attribute adds exactly
\* 100 to every score (with the single numeric attribute of NumericProps, every
\* cached score is 100).
C4_ConstantAttributeRaisesNothing ==
    (KnownQuery /\ Len(vertices) >= 2 /\ \E p \in NumericProps : ConstantColumn(p)) =>
        /\ raised = "none"
        /\ \A k \in Keys(vertices) \ {Queried} :
            /\ Cached(neighbors, Queried, k)
            /\ DictGet(neighbors[Queried], k) = ToFloat(100)

\* C5: the similarity of two distinct songs of a file, with the ranges of that
\* file, lies in [0, 100].
C5_ScoreWithinBounds ==
    (call.op = "get_similarity" /\ raised = "none") =>
        (0 <= ret /\ ret <= ToFloat(100))

RECURSIVE MaxOver(_)
MaxOver(S) ==
    LET x == CHOOSE y \in S : TRUE
    IN IF S = {x} THEN x ELSE Max2(x, MaxOver(S \ {x}))

RECURSIVE MinOver(_)
MinOver(S) ==
    LET x == CHOOSE y \in S : TRUE
    IN IF S = {x} THEN x ELSE -Max2(-x, -MinOver(S \ {x}))

ColumnValues(p) == {ToFloat(rows[i][p]) : i \in DOMAIN rows}

\* C6: for a non-empty file, in any order of its lines, the range of every
\* numeric column is its maximum minus its minimum.
C6_RangeIsMaxMinusMin ==
    Len(rows) >= 1 =>
        \A p \in DOMAIN property_ranges :
            property_ranges[p] = MaxOver(ColumnValues(p)) - MinOver(ColumnValues(p))

\* the graph has just been constructed: no add_vertex, no query yet
Constructed == call = NoCall

\* C7 as amended: get_property_ranges on a file with no lines raises nothing and
\* returns a mapping whose every range is infinite.
C7_EmptyFileGivesInfiniteRanges ==
    Len(rows) = 0 =>
        /\ Constructed => raised = "none"
        /\ \A p \in NumericProps :
            p \in DOMAIN property_ranges /\ property_ranges[p] = PosInf

\* the ranges were built from a file with no lines
C7_Witness == Len(rows) = 0 /\ Constructed /\ DOMAIN property_ranges = NumericProps

\* C7 as stated: get_property_ranges on a file with no lines fails with
\* EmptyCatalogError and returns no mapping.
C7_EmptyFileFails ==
    (Len(rows) = 0 /\ Constructed) =>
        (raised = "EmptyCatalogError" /\ DOMAIN property_ranges = {})

\* C8: a query for a (name, artist) that is not a key of the catalog returns the
\* empty list and raises nothing.
C8_UnknownPairReturnsEmpty ==
    (IsQuery /\ Queried \notin Keys(vertices)) =>
        /\ raised = "none"
        /\ \A a \in QueryArgs : ret[a] = <<>>

\* a query asked for a known title with an artist that has no song of that
\* title, on a graph that already holds cached edges and has another song by
\* that artist
C8_Witness ==
    /\ IsQuery /\ Queried \notin Keys(vertices)
    /\ \E k \in Keys(vertices) : k[1] = call.name
    /\ \E k \in Keys(vertices) : k[2] = call.artist
    /\ \E k \in Keys(vertices) : neighbors[k] # <<>>

\* C9: the edge cache is symmetric: B is a cached neighbour of A exactly when A
\* is one of B, with the same score.
C9_CacheSymmetric ==
    \A a \in DOMAIN neighbors : \A i \in DOMAIN neighbors[a] :
        LET b == neighbors[a][i][1]
        IN /\ Cached(neighbors, b, a)
           /\ DictGet(neighbors[b], a) = neighbors[a][i][2]

\* a query on one end of a pair found the pair cached by an earlier query, and
\* the other end holds two cached neighbours
C9_Witness ==
    /\ KnownQuery
    /\ \E b \in Keys(vertices) \ {Queried} :
        /\ Cached(neighbors, b, Queried)
        /\ {Queried, b} \notin computed
        /\ Len(neighbors[b]) >= 2

\* C10: a cached score is never removed and never changes, and a query does not
\* run get_similarity on a pair that is already cached.
C10_CacheOnlyGrows ==
    [][\A a \in DOMAIN neighbors : \A i \in DOMAIN neighbors[a] :
          LET b == neighbors[a][i][1]
          IN /\ Cached(neighbors', a, b)
             /\ DictGet(neighbors'[a], b) = neighbors[a][i][2]
             /\ {a, b} \notin computed']_vars

\* a query needed a pair that was already cached, and computed another one
C10_Witness ==
    /\ KnownQuery /\ raised = "none"
    /\ \E b \in Keys(vertices) \ {Queried} : {Queried, b} \notin computed
    /\ computed # {}

\* no two entries of the catalog share a (name, artist)
KeysDistinct(vs) ==
    \A i \in DOMAIN vs : \A j \in DOMAIN vs : KeyOf(vs[i]) = KeyOf(vs[j]) => i = j

\* the attributes build_graph passed to the last add_vertex
LastAdded == RowAttributes(rows[cursor - 1])

\* C11: add_vertex raises nothing and never leaves two entries with one
\* (name, artist); when the (name, artist) is already in the catalog it changes
\* nothing: the entries, their attributes, their order and every neighbour map
\* stay as they were.
C11_DuplicateInsertIsNoOp ==
    [][(cursor' = cursor + 1) =>
          /\ raised' = "none"
          /\ KeysDistinct(vertices')
          /\ KeyOf(RowAttributes(rows[cursor])) \in Keys(vertices) =>
                (vertices' = vertices /\ neighbors' = neighbors)]_vars

\* add_vertex was called with the (name, artist) of a song that holds cached
\* edges, and with other attributes than the catalog keeps for it
C11_Witness ==
    /\ call.op = "add_vertex"
    /\ VertexOf(vertices, KeyOf(LastAdded)) # LastAdded
    /\ neighbors[KeyOf(LastAdded)] # <<>>

\* C12: get_artists_by_song(name) raises nothing and returns, each once, exactly
\* the artists a for which (name in lower case, a) is a song of the catalog; a
\* name that differs from a stored title in letter case only still matches.
C12_ArtistsOfNormalizedTitle ==
    call.op = "get_artists_by_song" =>
        /\ raised = "none"
        /\ {ret[i] : i \in DOMAIN ret} =
              {k[2] : k \in {key \in Keys(vertices) : key[1] = Lower(call.name)}}
        /\ \A i \in DOMAIN ret : \A j \in DOMAIN ret : ret[i] = ret[j] => i = j

\* C13: no neighbour map holds an entry when the graph is constructed, and a
\* step gives the pair {a, b} a cache entry only if it is a get_recommendations
\* call on a or on b: add_vertex, get_artists_by_song and a query on a third
\* song create no entry for the pair.
C13_EdgesOnDemand ==
    /\ \A a \in DOMAIN neighbors : neighbors[a] = <<>>
    /\ [][\A a \in DOMAIN neighbors' : \A i \in DOMAIN neighbors'[a] :
             LET b == neighbors'[a][i][1]
             IN \/ Cached(neighbors, a, b)
                \/ /\ call'.op = "get_recommendations"
                   /\ <<call'.name, call'.artist>> \in {a, b}]_vars

\* a query cached the edges of the queried song to two other songs, and the
\* pair of those two has no cache entry
C13_Witness ==
    /\ KnownQuery /\ raised = "none"
    /\ \E y \in Keys(vertices) \ {Queried} : \E z \in Keys(vertices) \ {Queried, y} :
        /\ Cached(neighbors, Queried, y)
        /\ Cached(neighbors, Queried, z)
        /\ ~Cached(neighbors, y, z)
        /\ ~Cached(neighbors, z, y)

\* every other song of the catalog is a cached neighbour of song
AllCached(nb, song) == \A k \in Keys(vertices) \ {song} : Cached(nb, song, k)

\* the loop of get_recommendations over the catalog for song, on the same
\* catalog with empty neighbour maps
OnEmptyCache(song) ==
    GeneralPath(vertices, 1, song, property_ranges,
                [known |-> TRUE, nb |-> [k \in DOMAIN neighbors |-> <<>>], lst |-> <<>>,
                 raised |-> "none", computed |-> {}])

ReturnsOf(st) == [a \in QueryArgs |-> ReturnOf(st, a[1], a[2])]

\* C14: a query on a catalog song whose edges to every other song are cached
\* raises nothing, returns for every (num_songs, threshold) the list, in the
\* same order, that the general loop returns on the same catalog with an empty
\* cache, runs get_similarity on no pair and leaves every neighbour map as it was.
C14_CachedQueryEqualsGeneralPath ==
    [][(/\ call'.op = "get_recommendations"
        /\ <<call'.name, call'.artist>> \in Keys(vertices)
        /\ AllCached(neighbors, <<call'.name, call'.artist>>)) =>
          /\ raised' = "none"
          /\ ret' = ReturnsOf(OnEmptyCache(<<call'.name, call'.artist>>))
          /\ computed' = {}
          /\ neighbors' = neighbors]_vars

\* a query found every edge of its song cached, two of them with equal scores
\* and cached in the reverse of their catalog order, and returned both songs
C14_Witness ==
    /\ KnownQuery /\ raised = "none" /\ computed = {}
    /\ AllCached(neighbors, Queried)
    /\ Len(neighbors[Queried]) >= 2
    /\ neighbors[Queried][1][2] = neighbors[Queried][2][2]
    /\ PosOf(neighbors[Queried][1][1]) > PosOf(neighbors[Queried][2][1])
    /\ \E a \in QueryArgs : Len(ret[a]) >= 2

\* the absolute difference in bpm of the catalog song key and the queried song
BpmDiff(key) == AbsDiff(VertexOf(vertices, key)["bpm"], VertexOf(vertices, Queried)["bpm"])

Min2(a, b) == IF a <= b THEN a ELSE b

\* lst holds k songs other than the queried one, or all of them if there are
\* fewer, in order of increasing diff, and no song left out is closer than one
\* of lst
ClosestFirst(lst, k, diff) ==
    /\ Len(lst) = Min2(k, Len(vertices) - 1)
    /\ \A i \in DOMAIN lst : lst[i] \in DOMAIN diff
    /\ \A i \in DOMAIN lst : \A j \in DOMAIN lst : i < j => diff[lst[i]] <= diff[lst[j]]
    /\ \A i \in DOMAIN lst : \A key \in DOMAIN diff : InSeq(key, lst) \/ diff[lst[i]] <= diff[key]

\* C15: in a catalog whose songs differ in bpm alone (year is the same on every
\* line), a query on a catalog song with threshold 0 and num_songs k >= 1
\* raises nothing and returns the k other songs closest in bpm, closest first.
C15_ClosestInOneAttribute ==
    KnownQuery =>
        /\ raised = "none"
        /\ \A k \in 1..MaxNum :
              ClosestFirst(ret[<<k, ToFloat(0)>>], k,
                           [key \in Keys(vertices) \ {Queried} |-> BpmDiff(key)])

\* 100 - |a - b| / range * 100 for column p of lines i and j, from the whole
\* numbers of the file and the whole-number range
NumericTerm(p, i, j) ==
    IF property_ranges[p] = PosInf THEN 100 * FP
    ELSE LET range == property_ranges[p] \div FP
             a == rows[i][p]
             b == rows[j][p]
         IN ((100 * range - 100 * (IF a >= b THEN a - b ELSE b - a)) * FP) \div range

\* the two songs of the last get_similarity call, as attribute dictionaries
ScoredSelf == RowAttributes(rows[call.self])

ScoredOther == RowAttributes(rows[call.other])

\* a copy of song with another name, artist and genre
Renamed(song, name, artist, genre) ==
    [song EXCEPT !["name"] = name, !["artist"] = artist, !["genre"] = genre]

\* C16: with no range equal to zero, get_similarity raises nothing and returns
\* (100 + 100 + the sum over the numeric attributes of 100 - |a - b| / range * 100)
\* divided by the number of attributes less one (2 + the number of numeric
\* attributes: 13 for the 14 attributes of the file, 4 for the ScorerProps
\* columns), and the score is the same for any name, artist and genre given to
\* either song.
C16_ScoreFormula ==
    (call.op = "get_similarity" /\ \A p \in ScorerProps : property_ranges[p] # 0) =>
        /\ raised = "none"
        /\ ret * (Cardinality(ScorerProps) + 2) =
              100 * FP + 100 * FP
              + SumOver(ScorerProps, [p \in ScorerProps |-> NumericTerm(p, call.self, call.other)])
        /\ \A name \in QueryNames, artist \in QueryArtists, genre \in {"pop", "rock"} :
              /\ GetSimilarity(Renamed(ScoredSelf, name, artist, genre), ScoredOther,
                               property_ranges).value = ret
              /\ GetSimilarity(ScoredSelf, Renamed(ScoredOther, name, artist, genre),
                               property_ranges).value = ret

\* get_similarity returned a score strictly between 0 and 100 for two songs of
\* different name, artist and genre
C16_Witness ==
    /\ call.op = "get_similarity" /\ raised = "none"
    /\ 0 < ret /\ ret < ToFloat(100)
    /\ ScoredSelf["genre"] # ScoredOther["genre"]
    /\ ScoredSelf["artist"] # ScoredOther["artist"]
    /\ ScoredSelf["name"] # ScoredOther["name"]

\* no returned list holds the queried song or one song twice, and a list asked
\* with num_songs of at least the number of other songs holds exactly the
\* songs whose score[k] is at least the threshold
AllQualifying(score) ==
    \A a \in QueryArgs :
        /\ ~InSeq(Queried, ret[a])
        /\ \A i \in DOMAIN ret[a] : \A j \in DOMAIN ret[a] : ret[a][i] = ret[a][j] => i = j
        /\ a[1] >= Len(vertices) - 1 =>
              {ret[a][i] : i \in DOMAIN ret[a]} = {k \in DOMAIN score : score[k] >= a[2]}

C18_AddEdgeRejectsNonVertex ==
    [][(/\ call'.op = "add_edge"
        /\ (call'.song1 \notin Keys(vertices) \/ call'.song2 \notin Keys(vertices))) =>
          /\ raised' = "ValueError"
          /\ neighbors' = neighbors]_vars

\* add_edge was called on a vertex that holds a cached edge and on an outside
\* song with the (name, artist) of another vertex, and raised ValueError
C18_Witness ==
    /\ call.op = "add_edge" /\ raised = "ValueError"
    /\ call.song1 \in Keys(vertices)
    /\ neighbors[call.song1] # <<>>
    /\ call.song2 \in OutsideSongs
    /\ <<call.song2[1], call.song2[2]>> \in Keys(vertices) \ {call.song1}

\* the condition of graphs.py line 155 for the catalog song key
FastPathCondition(key) == Len(neighbors[key]) = Len(vertices)

\* C19: whatever add_vertex, get_recommendations and get_artists_by_song calls
\* were made, the neighbour map of every catalog song holds only other catalog
\* songs, each once, so it has at most catalog size - 1 entries and the
\* condition len(song.neighbors) == len(self._vertices) is false for every song.
C19_FastPathNeverTaken ==
    \A a \in Keys(vertices) :
        /\ \A i \in DOMAIN neighbors[a] : neighbors[a][i][1] \in Keys(vertices) \ {a}
        /\ \A i \in DOMAIN neighbors[a] : \A j \in DOMAIN neighbors[a] :
              neighbors[a][i][1] = neighbors[a][j][1] => i = j
        /\ Len(neighbors[a]) <= Len(vertices) - 1
        /\ ~FastPathCondition(a)

\* a query on a song of a catalog of three or more songs found every edge of
\* the song cached
C19_Witness ==
    /\ KnownQuery /\ raised = "none" /\ computed = {}
    /\ Len(vertices) >= 3
    /\ Len(neighbors[Queried]) = Len(vertices) - 1

====
